---- MODULE Spec2Model ----
(***************************************************************************)
(* Model of bmtool's videoLoop command (src/cmd/videoLoop.go).             *)
(*                                                                         *)
(* Four specifications share this module:                                  *)
(*   SpecCount     : getRequiredLoopCount on bounded integer inputs        *)
(*   SpecGraph     : filterComplexWithCrossFade on small uint16 inputs     *)
(*   SpecGraphWide : the same, with counts where count*2 leaves uint16     *)
(*   Spec          : videoLoopCmd.Run over a list of input clips, with     *)
(*                   the probe, the file system and the external engine    *)
(*                   as nondeterministic collaborators                     *)
(***************************************************************************)
EXTENDS Integers, Sequences, FiniteSets, Bags, TLC

VARIABLES
    \* ---- SpecCount: getRequiredLoopCount(length, requiredLength, tDuration)
    cLength, cRequired, cTDuration, cArch, cResult, cpc,
    \* ---- SpecGraph: filterComplexWithCrossFade(count, tDur, length)
    gCount, gTDur, gLength, fc, gConcat, gpc,
    \* ---- Spec: videoLoopCmd.Run
    count, errC, length, errD, crossFade, tDuration, arch, args,
    pc, idx, oPath, shouldConcatCountTimes, shouldConcatToAchieveLength,
    tmpFiles, engineCalls, processed, stderr

countVars == <<cLength, cRequired, cTDuration, cArch, cResult, cpc>>
graphVars == <<gCount, gTDur, gLength, fc, gConcat, gpc>>
flagVars  == <<count, errC, length, errD, crossFade, tDuration, arch, args>>
runVars   == <<flagVars, pc, idx, oPath, shouldConcatCountTimes,
               shouldConcatToAchieveLength, tmpFiles, engineCalls,
               processed, stderr>>
vars      == <<countVars, graphVars, runVars>>

(***************************************************************************)
(* Bounds of the explored input space.                                     *)
(***************************************************************************)
MaxClipLen    == 15   \* clip lengths 0..MaxClipLen for getRequiredLoopCount
MaxTarget     == 35   \* required lengths 0..MaxTarget
MaxTransition == 5    \* transition durations 0..MaxTransition
MaxGraphCount == 5    \* small loop counts 2..MaxGraphCount for the graph
MaxGraphLen   == 8    \* clip lengths 0..MaxGraphLen for the graph
MaxGraphTDur  == 5    \* transition durations 0..MaxGraphTDur for the graph

(***************************************************************************)
(* Machine integers.                                                       *)
(*                                                                         *)
(* A Go int is kept as a record: an ordinary value, or one of the two      *)
(* ends of int64, which are only ever produced by converting a float64     *)
(* that does not fit.                                                      *)
(***************************************************************************)
Uint16Range == 65536                      \* 2^16, the modulus of uint16
MaxUint16   == 65535
ToUint16(n) == n % Uint16Range            \* uint16 arithmetic on uint16 operands

GoInt(n) == [kind |-> "int", v |-> n]
MinInt64 == [kind |-> "MinInt64", v |-> 0]
MaxInt64 == [kind |-> "MaxInt64", v |-> 0]

\* uint16(x) of a Go int x: the low 16 bits
Uint16OfInt(x) ==
    CASE x.kind = "int"      -> x.v % Uint16Range
      [] x.kind = "MinInt64" -> 0
      [] x.kind = "MaxInt64" -> MaxUint16

nil == "nil"
Archs == {"amd64", "arm64"}

(***************************************************************************)
(* getRequiredLoopCount, lines 170-192.                                    *)
(*                                                                         *)
(* numerator/denominator is a float64 division: a zero denominator gives   *)
(* +Inf, -Inf or NaN and no panic.  math.Ceil keeps those, and int() of a  *)
(* value that does not fit is implementation-dependent in Go: amd64        *)
(* yields MinInt64 for all three, arm64 saturates and turns NaN into 0.    *)
(* For a finite quotient of integers below 2^53 the float64 quotient is    *)
(* an integer only when the exact quotient is one, so int(math.Ceil(n/d))  *)
(* is the exact ceiling of n/d.                                            *)
(***************************************************************************)
Float64Div(n, d) ==
    IF d # 0 THEN [kind |-> "finite", num |-> n, den |-> d]
    ELSE IF n > 0 THEN [kind |-> "+Inf", num |-> n, den |-> d]
    ELSE IF n < 0 THEN [kind |-> "-Inf", num |-> n, den |-> d]
    ELSE [kind |-> "NaN", num |-> n, den |-> d]

\* a slip: truncating integer division in place of math.Ceil
CeilQuotTruncated(num, den) ==
    IF den > 0 THEN num \div den ELSE (-num) \div (-den)

\* math.Ceil of the exact quotient num/den, den # 0
CeilQuot(num, den) ==
    IF den > 0 THEN -((-num) \div den) ELSE -(num \div (-den))

\* int(math.Ceil(f)) on the given architecture
IntOfCeil(f, a) ==
    CASE f.kind = "finite" -> GoInt(CeilQuot(f.num, f.den))
      [] f.kind = "+Inf"   -> IF a = "amd64" THEN MinInt64 ELSE MaxInt64
      [] f.kind = "-Inf"   -> MinInt64
      [] f.kind = "NaN"    -> IF a = "amd64" THEN MinInt64 ELSE GoInt(0)

getRequiredLoopCount(len, requiredLength, tDur, a) ==
    IF requiredLength = 0
    THEN [count |-> GoInt(0), err |-> "required duration is 0"]
    ELSE LET numerator   == requiredLength - tDur
             denominator == len - tDur
         IN  [count |-> IntOfCeil(Float64Div(numerator, denominator), a),
              err   |-> nil]

(***************************************************************************)
(* filterComplexWithCrossFade, lines 99-135.                               *)
(*                                                                         *)
(* The returned text is a ';'-separated list of filter statements.  It is  *)
(* kept as the sequence of those statements, each with its input labels,   *)
(* its filter and arguments, and its output labels, in the order written.  *)
(* Labels are the strings between the brackets.  All arithmetic on count,  *)
(* tDur and length is uint16 arithmetic.                                   *)
(***************************************************************************)
\* fmt.Sprintf("cf%d", i), fmt.Sprintf("cl%d", i)
Label(prefix, i) == prefix \o ToString(i)

\* a slip: the loop counter started at 0 on the split side
LoopLabelsFromZero(prefix, cnt) ==
    [i \in 1..(cnt - 1) |-> Label(prefix, i - 1)]

\* loop of lines 104-109: i = 1; i < count; i++ appends one label per pass
LoopLabels(prefix, cnt) ==
    [i \in 1..(cnt - 1) |-> Label(prefix, i)]

\* cfcl: the pair [cf_i][cl_i] appended on pass i
LoopLabelPairs(cnt) ==
    [k \in 1..(2 * (cnt - 1)) |->
        IF k % 2 = 1 THEN Label("cf", (k + 1) \div 2)
                     ELSE Label("cl", k \div 2)]

Stmt(ins, filter, a1, a2, outs) ==
    [ins |-> ins, filter |-> filter, a1 |-> a1, a2 |-> a2, outs |-> outs]

filterComplexWithCrossFade(cnt, tDur, len) ==
    LET cf   == LoopLabels("cf", cnt)
        cl   == LoopLabels("cl", cnt)
        cfcl == LoopLabelPairs(cnt)
        d    == ToUint16(len - tDur)
    IN  << Stmt(<<"0:v">>, "trim", 0, d, <<"clip1">>),
           Stmt(<<"0:v">>, "trim", tDur, d, <<"clip2">>),
           Stmt(<<"0:v">>, "trim", d, len, <<"clip3">>),
           Stmt(<<"0:v">>, "trim", d, len, <<"fadeoutsrc">>),
           Stmt(<<"0:v">>, "trim", 0, tDur, <<"fadeinsrc">>),
           Stmt(<<"fadeinsrc">>, "fade-in", 0, tDur, <<"fadein">>),
           Stmt(<<"fadeoutsrc">>, "fade-out", 0, tDur, <<"fadeout">>),
           Stmt(<<"fadein">>, "fifo", 0, 0, <<"fadeinfifo">>),
           Stmt(<<"fadeout">>, "fifo", 0, 0, <<"fadeoutfifo">>),
           Stmt(<<"fadeoutfifo", "fadeinfifo">>, "overlay", 0, 0,
                <<"crossfade">>),
           Stmt(<<"crossfade">>, "split", ToUint16(cnt - 1), 0, cf),
           Stmt(<<"clip2">>, "split", ToUint16(cnt - 1), 0, cl),
           Stmt(<<"clip1">> \o cfcl \o <<"clip3">>, "concat",
                ToUint16(cnt * 2), 1, <<"output">>) >>

(***************************************************************************)
(* Idle values of the variable groups a specification does not use.        *)
(***************************************************************************)
NoResult == [count |-> GoInt(0), err |-> "not called"]

CountIdle ==
    /\ cLength = 0 /\ cRequired = 0 /\ cTDuration = 0
    /\ cArch = "amd64" /\ cResult = NoResult /\ cpc = "idle"

RunIdle ==
    /\ count = 0 /\ errC = nil /\ length = 0 /\ errD = nil
    /\ crossFade = FALSE /\ tDuration = 0 /\ arch = "amd64" /\ args = <<>>
    /\ pc = "idle" /\ idx = 0 /\ oPath = ""
    /\ shouldConcatCountTimes = FALSE /\ shouldConcatToAchieveLength = FALSE
    /\ tmpFiles = {} /\ engineCalls = <<>> /\ processed = <<>> /\ stderr = <<>>

\* what is kept of the last statement of a graph: its filter, the n it
\* declares, how many input labels it lists, and the first and last of them
Min(a, b) == IF a <= b THEN a ELSE b
Max(a, b) == IF a >= b THEN a ELSE b
EndsKept == 3

ConcatStatement(g) ==
    LET st == g[Len(g)]
        n  == Len(st.ins)
    IN  [filter |-> st.filter, n |-> st.a1, v |-> st.a2, inputs |-> n,
         first |-> SubSeq(st.ins, 1, Min(EndsKept, n)),
         last  |-> SubSeq(st.ins, Max(1, n - EndsKept + 1), n),
         outs  |-> st.outs]

NoConcat ==
    [filter |-> "", n |-> 0, v |-> 0, inputs |-> 0,
     first |-> <<>>, last |-> <<>>, outs |-> <<>>]

GraphIdle ==
    /\ gCount = 0 /\ gTDur = 0 /\ gLength = 0 /\ fc = <<>>
    /\ gConcat = NoConcat /\ gpc = "idle"

(***************************************************************************)
(* SpecCount: one call of getRequiredLoopCount on each input in bounds.    *)
(* The parameters are Go ints; Run passes values that are not negative.    *)
(***************************************************************************)
InitCount ==
    /\ cLength \in 0..MaxClipLen
    /\ cRequired \in 0..MaxTarget
    /\ cTDuration \in 0..MaxTransition
    /\ cArch \in Archs
    /\ cResult = NoResult
    /\ cpc = "call"
    /\ GraphIdle /\ RunIdle

CallGetRequiredLoopCount ==
    /\ cpc = "call"
    /\ cResult' = getRequiredLoopCount(cLength, cRequired, cTDuration, cArch)
    /\ cpc' = "returned"
    /\ UNCHANGED <<cLength, cRequired, cTDuration, cArch>>
    /\ UNCHANGED <<graphVars, runVars>>

(***************************************************************************)
(* SpecGraph, SpecGraphWide: one call of filterComplexWithCrossFade.       *)
(* SpecGraph takes small counts with every tDur/length pair in bounds,     *)
(* length < tDur included (Run does not stop such a call), and keeps the   *)
(* whole graph in fc.  SpecGraphWide adds the uint16 counts around the     *)
(* point where count*2 leaves uint16; of those graphs, whose concat        *)
(* statement lists tens of thousands of labels, the state keeps gConcat.   *)
(***************************************************************************)
HalfUint16 == 32768                       \* 2^15: count*2 = 2^16 in uint16
WideCounts == {HalfUint16 - 1, HalfUint16, MaxUint16}
MaxWideTDur == 1
MaxWideLen  == 3

InitGraph ==
    /\ gCount \in 2..MaxGraphCount
    /\ gTDur \in 0..MaxGraphTDur
    /\ gLength \in 0..MaxGraphLen
    /\ fc = <<>>
    /\ gConcat = NoConcat
    /\ gpc = "call"
    /\ CountIdle /\ RunIdle

InitGraphWide ==
    /\ gCount \in (2..MaxGraphCount) \cup WideCounts
    /\ gTDur \in 0..MaxWideTDur
    /\ gLength \in 0..MaxWideLen
    /\ fc = <<>>
    /\ gConcat = NoConcat
    /\ gpc = "call"
    /\ CountIdle /\ RunIdle

CallFilterComplexWithCrossFade ==
    /\ gpc = "call"
    /\ fc' = filterComplexWithCrossFade(gCount, gTDur, gLength)
    /\ gConcat' = ConcatStatement(fc')
    /\ gpc' = "returned"
    /\ UNCHANGED <<gCount, gTDur, gLength>>
    /\ UNCHANGED <<countVars, runVars>>

CallFilterComplexWithCrossFadeWide ==
    /\ gpc = "call"
    /\ gConcat' = ConcatStatement(
                     filterComplexWithCrossFade(gCount, gTDur, gLength))
    /\ gpc' = "returned"
    /\ UNCHANGED <<gCount, gTDur, gLength, fc>>
    /\ UNCHANGED <<countVars, runVars>>

(***************************************************************************)
(* Claims about getRequiredLoopCount (SpecCount).                          *)
(***************************************************************************)
CountReturned == cpc = "returned"

\* the length a loop of n clips reaches: n first parts and one last part
LoopLength(n) == n * (cLength - cTDuration) + cTDuration

\* C1: for clip length > transition >= 0 and target > transition the call
\* returns no error and the smallest integer n whose loop length
\* n*(length - tDuration) + tDuration reaches the required length.
C1_SmallestSufficientCount ==
    (/\ CountReturned
     /\ cLength > cTDuration /\ cTDuration >= 0
     /\ cRequired > cTDuration)
    => /\ cResult.err = nil
       /\ cResult.count.kind = "int"
       /\ LoopLength(cResult.count.v) >= cRequired
       /\ \A m \in (-1)..MaxTarget :
             LoopLength(m) >= cRequired => m >= cResult.count.v

\* C1 witness: scenario 1 of the spec, clip 15, transition 5, target 35 -> 3;
\* 36 needs a fourth copy.
C1_Witness ==
    /\ CountReturned
    /\ cLength = 15 /\ cTDuration = 5 /\ cRequired = 35
    /\ cResult = [count |-> GoInt(3), err |-> nil]

\* C4: the call fails with an error whenever the clip is not longer than the
\* transition, for any target, and whenever the target is <= 0.
C4_DegenerateOrInvalidFails ==
    (CountReturned /\ (cLength <= cTDuration \/ cRequired <= 0))
    => cResult.err # nil

(***************************************************************************)
(* Claims about filterComplexWithCrossFade (SpecGraph, SpecGraphWide).     *)
(***************************************************************************)
GraphReturned == gpc = "returned"

Last(s) == s[Len(s)]

\* C2: for every count >= 2 the text ends in a concat statement whose
\* declared n equals count*2 and equals the number of input labels listed
\* before it: [clip1], the pairs [cf_i][cl_i] for i = 1..count-1, [clip3].
C2_ConcatDeclaresItsInputs ==
    (GraphReturned /\ gCount >= 2)
    => /\ gConcat.filter = "concat"
       /\ gConcat.n = gCount * 2
       /\ gConcat.n = gConcat.inputs
       /\ gConcat.first[1] = "clip1"
       /\ gConcat.first[2] = "cf1"
       /\ gConcat.first[3] = "cl1"
       /\ LET k == Len(gConcat.last)
          IN  /\ gConcat.last[k - 2] = "cf" \o ToString(gCount - 1)
              /\ gConcat.last[k - 1] = "cl" \o ToString(gCount - 1)
              /\ gConcat.last[k] = "clip3"

\* labels produced by the statements before statement i
ProducedBefore(g, i) ==
    UNION { { g[j].outs[m] : m \in 1..Len(g[j].outs) } : j \in 1..(i - 1) }

\* C3: every label a statement reads, other than the source stream [0:v],
\* is written by a strictly earlier statement; each split declares as many
\* outputs, count-1, as it lists; only the final statement writes [output].
C3_GraphIsWellFormed ==
    (GraphReturned /\ gCount >= 2)
    => /\ \A i \in 1..Len(fc) :
             \A k \in 1..Len(fc[i].ins) :
                 \/ fc[i].ins[k] = "0:v"
                 \/ fc[i].ins[k] \in ProducedBefore(fc, i)
       /\ \A i \in 1..Len(fc) :
             fc[i].filter = "split"
             => /\ fc[i].a1 = gCount - 1
                /\ Len(fc[i].outs) = fc[i].a1
       /\ \A i \in 1..Len(fc) :
             ("output" \in { fc[i].outs[m] : m \in 1..Len(fc[i].outs) })
             <=> i = Len(fc)
       /\ Last(fc).outs = <<"output">>

\* C3 witness: a three-copy graph, whose concat reads cf1 cl1 cf2 cl2
C3_Witness ==
    /\ GraphReturned
    /\ gCount = 3
    /\ Last(fc).ins = <<"clip1", "cf1", "cl1", "cf2", "cl2", "clip3">>
    /\ fc[11].outs = <<"cf1", "cf2">>
    /\ fc[12].outs = <<"cl1", "cl2">>

\* C10: under the builder's precondition (count >= 2, clip length >
\* transition >= 0) every trim has 0 <= start <= end <= clip length.
C10_TrimWindowsOrdered ==
    (GraphReturned /\ gCount >= 2 /\ gTDur >= 0 /\ gLength > gTDur)
    => \A i \in 1..Len(fc) :
          fc[i].filter = "trim"
          => /\ 0 <= fc[i].a1
             /\ fc[i].a1 <= fc[i].a2
             /\ fc[i].a2 <= gLength

(***************************************************************************)
(* videoLoopCmd.Run, lines 46-86, and the functions it calls.              *)
(*                                                                         *)
(* Collaborators whose code is not in videoLoop.go: isFileVideo,           *)
(* createOutputDirectory, getFileNameWithoutExtension and getLength.       *)
(* The file system (ioutil.TempFile, WriteString, Close, filepath.Abs)     *)
(* and the engine (exec.Cmd.Run) answer nondeterministically.              *)
(***************************************************************************)
MaxCount     == 3     \* --count values 0..MaxCount
MaxLength    == 2     \* --length values 0..MaxLength
MaxRunTDur   == 1     \* --transitionDuration values 0..MaxRunTDur
MaxArgs      == 2     \* number of clips on the command line
MaxProbedLen == 2     \* clip lengths 0..MaxProbedLen reported by the probe

Files == {"a.mov", "notes.txt"}

\* the flag's zero value and an error when pflag cannot read it as uint16
FlagNotRead == "flag accessed but not defined"
FlagValues(max) ==
    { [v |-> n, err |-> nil] : n \in 0..max } \cup { [v |-> 0, err |-> FlagNotRead] }

ArgLists == UNION { [1..n -> Files] : n \in 0..MaxArgs }

isFileVideo(e) == e = "a.mov"

getFileNameWithoutExtension(e) ==
    CASE e = "a.mov"     -> "a"
      [] e = "notes.txt" -> "notes"

createOutputDirectory == "out"

\* fmt.Sprintf("%s-%d", name, n)
Suffix(name, n) == name \o "-" \o ToString(n)

\* filepath.Join(dir, file)
Join(dir, file) == dir \o "/" \o file

getOutputFileName(dir, f, suffix) ==
    Join(dir, getFileNameWithoutExtension(f) \o "_" \o suffix \o "." \o "mp4")

\* filepath.Abs(e); its error is dropped and p is then ""
Abs(e, ok) == IF ok THEN "/cwd/" \o e ELSE ""

\* fmt.Sprintf("%s '%s'\n", "file", p): one line of the concat list
ListLine(p) == "file '" \o p \o "'"

\* The text of the list file is kept as the bag of its lines: how many
\* times each line occurs in it.

\* a slip: one copy too few
RepeatOneLess(line, n) ==
    IF n - 1 <= 0 THEN EmptyBag ELSE [x \in {line} |-> n - 1]

\* strings.Repeat(line, n): n copies of the line, nothing for n = 0
Repeat(line, n) ==
    IF n <= 0 THEN EmptyBag ELSE [x \in {line} |-> n]

\* the name ioutil.TempFile picks: the clip's directory, the stem as
\* prefix, and a suffix no other file has (here the clip's position)
TempFileName(e, i) == getFileNameWithoutExtension(e) \o ToString(i)

NoGraph == <<>>
NoList  == EmptyBag

\* one run of the external engine (exec.Cmd.Run), which returns only after
\* the engine has ended
EngineCall(i, kind, input, list, graph, output, ok, probed, tDur) ==
    [clip |-> i, kind |-> kind, input |-> input, list |-> list,
     graph |-> graph, output |-> output, ok |-> ok,
     probed |-> probed, tDur |-> tDur]

\* what happened to one clip of args
ClipRecord(i, outcome, absOk) == [clip |-> i, outcome |-> outcome, absOk |-> absOk]

Init ==
    /\ CountIdle /\ GraphIdle
    /\ \E c \in FlagValues(MaxCount), l \in FlagValues(MaxLength) :
          /\ count = c.v /\ errC = c.err
          /\ length = l.v /\ errD = l.err
    /\ crossFade \in BOOLEAN
    /\ tDuration \in 0..MaxRunTDur
    /\ arch \in Archs
    /\ args \in ArgLists
    /\ pc = "start" /\ idx = 0 /\ oPath = ""
    /\ shouldConcatCountTimes = FALSE /\ shouldConcatToAchieveLength = FALSE
    /\ tmpFiles = {} /\ engineCalls = <<>> /\ processed = <<>> /\ stderr = <<>>

\* lines 47-64: read the flags, validate, choose the mode
Validate ==
    /\ pc = "start"
    /\ IF errC # nil /\ errD # nil
       THEN /\ stderr' = Append(stderr,
                  "Unable to find Count or Length. At least one is required")
            /\ pc' = "done"
            /\ UNCHANGED <<idx, oPath, shouldConcatCountTimes,
                           shouldConcatToAchieveLength>>
       ELSE IF count < 2
       THEN /\ stderr' = Append(stderr, "Loop count must be at least 2.")
            /\ pc' = "done"
            /\ UNCHANGED <<idx, oPath, shouldConcatCountTimes,
                           shouldConcatToAchieveLength>>
       ELSE /\ oPath' = createOutputDirectory
            /\ shouldConcatCountTimes' = (length = 0 /\ errC = nil /\ count > 0)
            /\ shouldConcatToAchieveLength' =
                  (~shouldConcatCountTimes' /\ errD = nil /\ length > 0)
            /\ idx' = 1
            /\ pc' = "loop"
            /\ UNCHANGED stderr
    /\ UNCHANGED <<flagVars, tmpFiles, engineCalls, processed>>
    /\ UNCHANGED <<countVars, graphVars>>

InLoop == pc = "loop" /\ idx \in 1..Len(args)

\* lines 200-227 with 229-244.  log.Fatal ends the process with status 1
\* at once: the deferred os.Remove does not run.  On the way through
\* runCommandVideoLoopWithoutTransition the engine's failure is only
\* printed, and the deferred os.Remove runs on return.
createVideoLoopWithoutTransition(cnt, e, output) ==
    \E io \in {"createFails", "writeFails", "closeFails", "written"},
       absOk \in BOOLEAN, engineOk \in BOOLEAN :
        LET tmp   == TempFileName(e, idx)
            p     == Abs(e, absOk)
            line  == ListLine(p)
            lineR == Repeat(line, cnt)
        IN  CASE io = "createFails" ->
                   /\ pc' = "exit1"
                   /\ processed' = Append(processed, ClipRecord(idx, io, FALSE))
                   /\ stderr' = Append(stderr, "log.Fatal")
                   /\ UNCHANGED <<idx, tmpFiles, engineCalls>>
              [] io \in {"writeFails", "closeFails"} ->
                   /\ pc' = "exit1"
                   /\ tmpFiles' = tmpFiles \cup {tmp}
                   /\ processed' = Append(processed, ClipRecord(idx, io, absOk))
                   /\ stderr' = Append(stderr, "log.Fatal")
                   /\ UNCHANGED <<idx, engineCalls>>
              [] io = "written" ->
                   /\ engineCalls' = Append(engineCalls,
                         EngineCall(idx, "concat", tmp, lineR, NoGraph, output,
                                    engineOk, 0, 0))
                   /\ tmpFiles' = (tmpFiles \cup {tmp}) \ {tmp}
                   /\ processed' = Append(processed,
                         ClipRecord(idx, IF engineOk THEN "engineOk"
                                                     ELSE "engineFails", absOk))
                   /\ stderr' = IF engineOk THEN stderr
                                ELSE Append(stderr, "engine error")
                   /\ idx' = idx + 1
                   /\ UNCHANGED pc

\* lines 137-168.  A clip shorter than the transition is reported and the
\* function goes on.
createVideoLoopWithTransition(cnt, tDur, file, output) ==
    \E probeOk \in BOOLEAN, l \in 0..MaxProbedLen, engineOk \in BOOLEAN :
        IF ~probeOk
        THEN /\ processed' = Append(processed, ClipRecord(idx, "probeFails", FALSE))
             /\ idx' = idx + 1
             /\ UNCHANGED <<pc, tmpFiles, engineCalls, stderr>>
        ELSE LET len   == ToUint16(l)
                 said  == IF len < tDur
                          THEN Append(stderr,
                              "Transition duration must be less than video length")
                          ELSE stderr
                 graph == filterComplexWithCrossFade(cnt, tDur, len)
             IN  /\ engineCalls' = Append(engineCalls,
                       EngineCall(idx, "filter_complex", file, NoList, graph,
                                  output, engineOk, len, tDur))
                 /\ processed' = Append(processed,
                       ClipRecord(idx, IF engineOk THEN "engineOk"
                                                   ELSE "engineFails", FALSE))
                 /\ stderr' = IF engineOk THEN said
                              ELSE Append(said, "engine error")
                 /\ idx' = idx + 1
                 /\ UNCHANGED <<pc, tmpFiles>>

\* line 67 false, or neither mode chosen: nothing is done for the clip
SkipClip ==
    /\ InLoop
    /\ \/ ~isFileVideo(args[idx])
       \/ (~shouldConcatCountTimes /\ ~shouldConcatToAchieveLength)
    /\ processed' = Append(processed, ClipRecord(idx, "skipped", FALSE))
    /\ idx' = idx + 1
    /\ UNCHANGED <<flagVars, pc, oPath, shouldConcatCountTimes,
                   shouldConcatToAchieveLength, tmpFiles, engineCalls, stderr>>
    /\ UNCHANGED <<countVars, graphVars>>

\* lines 68-71
LoopCountTimesWithoutTransition ==
    /\ InLoop
    /\ isFileVideo(args[idx])
    /\ shouldConcatCountTimes
    /\ ~crossFade
    /\ createVideoLoopWithoutTransition(count, args[idx],
          getOutputFileName(oPath, args[idx], Suffix("loop", count)))
    /\ UNCHANGED <<flagVars, oPath, shouldConcatCountTimes,
                   shouldConcatToAchieveLength>>
    /\ UNCHANGED <<countVars, graphVars>>

\* lines 68-69, 72-73
LoopCountTimesWithTransition ==
    /\ InLoop
    /\ isFileVideo(args[idx])
    /\ shouldConcatCountTimes
    /\ crossFade
    /\ createVideoLoopWithTransition(count, tDuration, args[idx],
          getOutputFileName(oPath, args[idx], Suffix("loop", count)))
    /\ UNCHANGED <<flagVars, oPath, shouldConcatCountTimes,
                   shouldConcatToAchieveLength>>
    /\ UNCHANGED <<countVars, graphVars>>

\* lines 75-82.  The call of line 76 passes the clip and the length flag;
\* the clip stands for its length l, and no transition is subtracted on
\* this path (tDuration 0).  The int it returns is narrowed to the uint16
\* parameter of createVideoLoopWithoutTransition.  With cross-fade asked
\* for, nothing is done.
LoopToAchieveLength ==
    /\ InLoop
    /\ isFileVideo(args[idx])
    /\ ~shouldConcatCountTimes
    /\ shouldConcatToAchieveLength
    /\ \E l \in 0..MaxProbedLen :
          LET r == getRequiredLoopCount(l, length, 0, arch)
          IN  IF r.err = nil /\ ~crossFade
              THEN createVideoLoopWithoutTransition(Uint16OfInt(r.count),
                      args[idx],
                      getOutputFileName(oPath, args[idx], Suffix("length", length)))
              ELSE /\ processed' = Append(processed,
                         ClipRecord(idx, "skipped", FALSE))
                   /\ idx' = idx + 1
                   /\ UNCHANGED <<pc, tmpFiles, engineCalls, stderr>>
    /\ UNCHANGED <<flagVars, oPath, shouldConcatCountTimes,
                   shouldConcatToAchieveLength>>
    /\ UNCHANGED <<countVars, graphVars>>

\* line 66: the range over args is exhausted and Run returns
Return ==
    /\ pc = "loop"
    /\ idx = Len(args) + 1
    /\ pc' = "done"
    /\ UNCHANGED <<flagVars, idx, oPath, shouldConcatCountTimes,
                   shouldConcatToAchieveLength, tmpFiles, engineCalls,
                   processed, stderr>>
    /\ UNCHANGED <<countVars, graphVars>>

Next ==
    \/ Validate
    \/ SkipClip
    \/ LoopCountTimesWithoutTransition
    \/ LoopCountTimesWithTransition
    \/ LoopToAchieveLength
    \/ Return

Spec == Init /\ [][Next]_vars

(***************************************************************************)
(* Claims about videoLoopCmd.Run (Spec).                                   *)
(***************************************************************************)
\* flag validation was passed: the loop over args was entered
Validated == pc \in {"loop", "done", "exit1"} /\ oPath = createOutputDirectory

\* the process has ended, by returning from Run or by log.Fatal
Terminated == pc \in {"done", "exit1"}

\* positions in engineCalls of the engine's runs for clip i
CallsFor(i) == { k \in 1..Len(engineCalls) : engineCalls[k].clip = i }

\* C5: on the cross-fade path a clip whose probed length is <= the
\* transition duration fails before any graph is built, and the engine is
\* never run for it.
C5_DegenerateClipNeverReachesEngine ==
    \A k \in 1..Len(engineCalls) :
        engineCalls[k].kind = "filter_complex"
        => engineCalls[k].probed > engineCalls[k].tDur

\* C6: exactly one mode is selected, and with a valid count (>= 2) and a
\* non-zero length both supplied it is the fixed-count mode: every clip is
\* looped count times and named loop-<count>; the length is not used.
C6_CountTakesPrecedence ==
    Validated
    => /\ shouldConcatCountTimes # shouldConcatToAchieveLength
       /\ (errC = nil /\ count >= 2 /\ errD = nil /\ length # 0)
          => /\ shouldConcatCountTimes
             /\ \A k \in 1..Len(engineCalls) :
                   engineCalls[k].output =
                      oPath \o "/" \o getFileNameWithoutExtension(
                         args[engineCalls[k].clip])
                      \o "_loop-" \o ToString(count) \o ".mp4"

\* C7: a failure while processing one clip never ends the run: once the
\* run has ended, every clip of args has been processed, in order.
C7_ClipFailuresAreLocal ==
    (Validated /\ Terminated)
    => /\ Len(processed) = Len(args)
       /\ \A j \in 1..Len(processed) : processed[j].clip = j

\* C8: the temporary list file of a clip no longer exists once processing
\* of that clip has ended, on every exit path.
C8_TempFileRemovedOnEveryExit ==
    Validated => tmpFiles = {}

FixedCountNoFade == Validated /\ shouldConcatCountTimes /\ ~crossFade

\* the engine ran once for clip j, on a list of exactly count copies of
\* the line naming path p, writing <stem>_loop-<count>.mp4 in oPath
LoopedOnce(j, p) ==
    /\ Cardinality(CallsFor(j)) = 1
    /\ \A k \in CallsFor(j) :
          /\ engineCalls[k].kind = "concat"
          /\ CopiesIn("file '" \o p \o "'", engineCalls[k].list) = count
          /\ BagCardinality(engineCalls[k].list) = count
          /\ engineCalls[k].output =
                oPath \o "/" \o getFileNameWithoutExtension(args[j])
                \o "_loop-" \o ToString(count) \o ".mp4"

NextCount == CallGetRequiredLoopCount

NextGraph == CallFilterComplexWithCrossFade

NextGraphWide == CallFilterComplexWithCrossFadeWide

SpecCount == InitCount /\ [][NextCount]_vars

SpecGraph == InitGraph /\ [][NextGraph]_vars

SpecGraphWide == InitGraphWide /\ [][NextGraphWide]_vars

====
